---- MODULE Spec2Model ----
(***************************************************************************)
(* Model of the Wave Playground (QtWaves): the PyQtLayout widget of        *)
(* src/main.py (add wave / reset / plot-all toggle / play handlers and     *)
(* update_plot's mixing loop) and the WaveInfo generators of src/mutils.py.*)
(*                                                                         *)
(* Sample buffers are sequences of integers.  A sample is held in units of *)
(* 1/Rate, so that the piecewise-linear generators of scipy.signal are     *)
(* exact: an amplitude-1 waveform ranges over -Rate .. Rate.  The sample   *)
(* rate is scaled down from 44100 to 4 samples per second; with 4 samples  *)
(* per second a sine of integer frequency falls on quarter turns only,     *)
(* where it is exactly 0, 1, 0, -1.                                        *)
(***************************************************************************)
EXTENDS Integers, Sequences, FiniteSets, TLC

\* ---------------------------------------------------------------- bounds
\* At most MaxWaves components are added before a reset.
MaxWaves == 2
\* Durations 1..MaxGenDur are rendered in the generator specification.
MaxGenDur == 3

\* ------------------------------------------------------ program constants
\* self.rate (44100 in the source, scaled down: see above).
Rate == 4
\* self.max_dur as __init__ sets it.
InitMaxDur == 3

Shapes == {"sine", "sawtooth", "square", "triangle"}

\* ------------------------------------------------------------ line edits
\* The text of a QLineEdit: either the decimal text of the integer val, or
\* text that is no number at all.
Junk == [num |-> FALSE, val |-> 0]
Num(n) == [num |-> TRUE, val |-> n]

\* Duration / Freq / Amplitude texts and combo box entries a user enters.
DurTexts == {Junk, Num(-1), Num(1), Num(4)}
FreqTexts == {Junk, Num(0), Num(1)}
AmpTexts == {Junk, Num(1)}
ShapeInputs == {"sine", "sawtooth"}

\* int(text) / float(eval(text)): raise on text that is no number.
ParseRaises(text) == ~text.num
ParseValue(text) == text.val

\* --------------------------------------------------------------- vectors
Abs(x) == IF x < 0 THEN -x ELSE x

Zeros(n) == [i \in 1..n |-> 0]

\* np.pad(current, (0, k)): k zeros appended on the right.
PadLeft(current, k) == Zeros(k) \o current
Pad(current, k) == current \o Zeros(k)

\* final_vec += current, for operands of one length.
VecAdd(a, b) == [i \in 1..Len(a) |-> a[i] + b[i]]

\* ------------------------------------------------------------ generators
\* The phase of sample k (0-based) of np.linspace(0, D, D*rate,
\* endpoint=False), t = k/rate, as a count of 1/rate turns: (freq*k) mod rate.
Phase(freq, k, rate) == (freq * k) % rate

\* sin at quarter turns.
SinQuarter(q) == CASE q = 0 -> 0 [] q = 1 -> 1 [] q = 2 -> 0 [] q = 3 -> -1

genSine(freq, k, rate) == rate * SinQuarter((4 * Phase(freq, k, rate)) \div rate)

\* signal.sawtooth(x, 0.5): rises 4p-1 on the first half turn, falls 3-4p.
genTriangle(freq, k, rate) ==
    LET m == Phase(freq, k, rate)
    IN IF 2 * m < rate THEN 4 * m - rate ELSE 3 * rate - 4 * m

\* signal.sawtooth(x): 2p-1 over the whole turn.
genSawtoothNoOffset(freq, k, rate) == 2 * Phase(freq, k, rate)
genSawtooth(freq, k, rate) == 2 * Phase(freq, k, rate) - rate

\* signal.square(x): 1 on the first half turn, -1 on the second.
genSquare(freq, k, rate) ==
    IF 2 * Phase(freq, k, rate) < rate THEN rate ELSE -rate

waveGens(shape, freq, k, rate) ==
    CASE shape = "sine" -> genSine(freq, k, rate)
      [] shape = "sawtooth" -> genSawtooth(freq, k, rate)
      [] shape = "square" -> genSquare(freq, k, rate)
      [] shape = "triangle" -> genTriangle(freq, k, rate)

\* np.linspace(0, D, num) raises ValueError for num < 0.
GenRaises(w, rate) == w.duration * rate < 0

\* WaveInfo.gen_wave(rate), for a component it does not raise on.
gen_wave(w, rate) ==
    [i \in 1..(w.duration * rate) |->
        waveGens(w.shape, w.freq, i - 1, rate) * w.amplitude]

WaveInfo(shape, duration, freq, amplitude) ==
    [shape |-> shape, duration |-> duration, freq |-> freq,
     amplitude |-> amplitude]

\* ----------------------------------------------------------------- state
VARIABLES
    current_wave,   \* 0 for "", n for wavedir / "wave_sum_n.wav"
    max_dur,        \* self.max_dur
    wave_objects,   \* self.wave_objects
    plot_all,       \* self.plot_all
    alive,          \* FALSE once an exception escaping a slot aborted the app
    files,          \* the n whose wave_sum_n.wav is in wavedir, complete
    final_vec,      \* the aggregate line drawn on canvas.axes (<<>>: none)
    axes_lines,     \* number of lines drawn on canvas.axes
    fft_len,        \* number of bins drawn on canvas.axes_fft (0: none)
    player,         \* the media self.player holds (-1: none was ever set)
    table_rows,     \* waveTable's row count
    ev,             \* what the last handler was given and did
    gen_in,         \* generator specification: the component to render
    gen_out,        \* generator specification: the rendered buffer
    gen_pc          \* generator specification: "idle", "ready" or "done"

gui_vars == <<current_wave, max_dur, wave_objects, plot_all, alive, files,
              final_vec, axes_lines, fft_len, player, table_rows, ev>>
gen_vars == <<gen_in, gen_out, gen_pc>>
vars == <<current_wave, max_dur, wave_objects, plot_all, alive, files,
          final_vec, axes_lines, fft_len, player, table_rows, ev,
          gen_in, gen_out, gen_pc>>

FileNames == 1..MaxWaves

\* The record of a handler's run, before the handler did anything.
Event(op) ==
    [op |-> op, accepted |-> FALSE, mixed |-> FALSE, raise |-> "none", fft |-> FALSE,
     wrote |-> 0, played |-> FALSE, del_err |-> FALSE]

GuiInit ==
    /\ current_wave = 0
    /\ max_dur = InitMaxDur
    /\ wave_objects = <<>>
    /\ plot_all = FALSE
    /\ alive = TRUE
    /\ files = {}
    /\ final_vec = <<>>
    /\ axes_lines = 0
    /\ fft_len = 0
    /\ player = -1
    /\ table_rows = 0
    /\ ev = Event("init")

Init ==
    /\ GuiInit
    /\ gen_in = WaveInfo("sine", 0, 0, 0)
    /\ gen_out = <<>>
    /\ gen_pc = "idle"

\* ----------------------------------------------------------- update_plot
\* The loop of update_plot over wave_objects, from component i on, with the
\* accumulator final_vec.  raise: "linspace" when gen_wave raises, "shape"
\* when a buffer longer than the accumulator is plotted against max_t or
\* added to it (numpy refuses operands of different lengths); done: the
\* components handled before that.
RECURSIVE MixLoop(_, _, _, _)
MixLoop(wos, i, acc, rate) ==
    IF i > Len(wos)
    THEN [raise |-> "none", vec |-> acc, done |-> Len(wos)]
    ELSE IF GenRaises(wos[i], rate)
    THEN [raise |-> "linspace", vec |-> <<>>, done |-> i - 1]
    ELSE LET current == gen_wave(wos[i], rate)
             padded == IF Len(current) < Len(acc)
                       THEN Pad(current, Len(acc) - Len(current))
                       ELSE current
         IN IF Len(padded) # Len(acc)
            THEN [raise |-> "shape", vec |-> <<>>, done |-> i - 1]
            ELSE MixLoop(wos, i + 1, VecAdd(acc, padded), rate)

\* max_t = np.linspace(0, max_dur, max_dur*rate); final_vec = 0 * max_t; the loop.
Mix(wos, md, rate) == MixLoop(wos, 1, Zeros(md * rate), rate)

\* mutils.get_fft: np.fft.rfft of N samples has N//2 + 1 bins.
get_fft_len(n) == n \div 2 + 1

\* wavio.write(path, ...): "ok", or an OSError raised on opening the file
\* ("fail_open": the directory is as it was) or while writing it
\* ("fail_write": what is left under the name is no complete wave file).
WriteOutcomes == {"ok", "fail_open", "fail_write"}
Written(fs, n, wr) ==
    CASE wr = "ok" -> fs \cup {n}
      [] wr = "fail_open" -> fs
      [] wr = "fail_write" -> fs \ {n}

\* play_audio_file: the player is given current_wave and told to play.
play_audio_file(cw) == player' = cw

\* "wave_sum_{}.wav".format(str(len(self.wave_objects))): the file is named
\* by the number of components.
FileEndOffByOne(wos) == Len(wos) - 1
file_end(wos) == Len(wos)

\* addWave: if (duration > self.max_dur): self.max_dur = duration.
NewMaxDurAssign(duration, md) == duration
NewMaxDurKeep(duration, md) == md
NewMaxDur(duration, md) == IF duration > md THEN duration ELSE md

\* clear_wave_files: self.wave_objects = [] stands in the finally clause, so
\* it runs whether or not os.remove raised (err).
ClearedUnlessError(wos, err) == IF err THEN wos ELSE <<>>
ClearedWaves(wos, err) == <<>>

\* update_plot, run with the component list wos, the directory fs and the
\* plot-all flag pa; e is the handler's record so far.  An exception that
\* escapes the slot aborts the app (PyQt5 from 5.5 on) or is printed and
\* forgotten (before).  Returns through the primed variables; ev'.raise tells
\* the caller whether update_plot raised.
update_plot(wos, fs, pa, e) ==
    IF wos = <<>>
    THEN /\ final_vec' = <<>>
         /\ axes_lines' = 0
         /\ fft_len' = 0
         /\ files' = fs
         /\ alive' = alive
         /\ UNCHANGED <<current_wave, player>>
         /\ ev' = e
    ELSE LET r == Mix(wos, max_dur', Rate)
             n == file_end(wos)
         IN IF r.raise # "none"
            THEN /\ final_vec' = <<>>
                 /\ axes_lines' = (IF pa THEN r.done ELSE 0)
                 /\ fft_len' = 0
                 /\ files' = fs
                 /\ alive' \in BOOLEAN
                 /\ UNCHANGED <<current_wave, player>>
                 /\ ev' = [e EXCEPT !.raise = r.raise]
            ELSE /\ final_vec' = r.vec
                 /\ axes_lines' = (IF pa THEN Len(wos) ELSE 0) + 1
                 /\ fft_len' = get_fft_len(Len(r.vec))
                 /\ current_wave' = n
                 /\ alive' = alive
                 /\ play_audio_file(n)
                 /\ \E wr \in WriteOutcomes :
                      /\ files' = Written(fs, n, wr)
                      /\ ev' = [e EXCEPT !.mixed = TRUE, !.fft = TRUE,
                                         !.wrote = n, !.played = TRUE]

\* tableSetup, reached only when update_plot returned.
tableSetup(wos) ==
    table_rows' = (IF ev'.raise = "none" THEN Len(wos) ELSE table_rows)

\* -------------------------------------------------------------- handlers
\* The Add Wave button.
addWave(ft, dt, at, shape) ==
    /\ alive
    /\ LET e == Event("add")
       IN IF ParseRaises(ft) \/ ParseRaises(dt) \/ ParseRaises(at)
          THEN /\ ev' = e
               /\ UNCHANGED <<current_wave, max_dur, wave_objects, plot_all,
                              alive, files, final_vec, axes_lines, fft_len,
                              player, table_rows>>
          ELSE LET frequency == ParseValue(ft)
                   duration == ParseValue(dt)
                   amplitude == ParseValue(at)
               IN /\ Len(wave_objects) < MaxWaves
                  /\ max_dur' = NewMaxDur(duration, max_dur)
                  /\ wave_objects' = Append(wave_objects,
                                        WaveInfo(shape, duration, frequency, amplitude))
                  /\ UNCHANGED plot_all
                  /\ update_plot(wave_objects', files, plot_all,
                                 [e EXCEPT !.accepted = TRUE])
                  /\ tableSetup(wave_objects')
    /\ UNCHANGED gen_vars

\* The Reset button.  kept: the complete files still there when the deleting
\* loop ends, which is none unless os.remove raised (err) and ended the loop.
clear_wave_files(kept, err) ==
    /\ alive
    /\ kept \subseteq files
    /\ kept # {} => err
    /\ wave_objects' = ClearedWaves(wave_objects, err)
    /\ UNCHANGED <<max_dur, plot_all>>
    /\ update_plot(wave_objects',
                   kept,
                   plot_all,
                   [Event("reset") EXCEPT !.del_err = err])
    /\ tableSetup(wave_objects')
    /\ UNCHANGED gen_vars

\* The Plot all waves check box, toggled.
plot_all_toggle ==
    /\ alive
    /\ plot_all' = ~plot_all
    /\ UNCHANGED <<max_dur, wave_objects, table_rows>>
    /\ update_plot(wave_objects, files, plot_all', Event("toggle"))
    /\ UNCHANGED gen_vars

\* The Play button.
PlayButton ==
    /\ alive
    /\ play_audio_file(current_wave)
    /\ ev' = [Event("play") EXCEPT !.played = TRUE]
    /\ UNCHANGED <<current_wave, max_dur, wave_objects, plot_all, alive, files,
                   final_vec, axes_lines, fft_len, table_rows>>
    /\ UNCHANGED gen_vars

AddWaveStep ==
    \E ft \in FreqTexts, dt \in DurTexts, at \in AmpTexts, shape \in ShapeInputs :
        addWave(ft, dt, at, shape)

ResetStep ==
    \E kept \in SUBSET FileNames, err \in BOOLEAN : clear_wave_files(kept, err)

Next == AddWaveStep \/ ResetStep \/ plot_all_toggle \/ PlayButton

Spec == Init /\ [][Next]_vars

\* ------------------------------------------- the generator specification
GenShapes == Shapes
GenDurations == 1..MaxGenDur
GenFreqs == {-1, 1, 2, 3}
GenAmps == {-2, -1, 0, 1, 2}
GenInputs ==
    {WaveInfo(s, d, f, a) : s \in GenShapes, d \in GenDurations,
                            f \in GenFreqs, a \in GenAmps}

GenInit ==
    /\ GuiInit
    /\ gen_in \in GenInputs
    /\ gen_out = <<>>
    /\ gen_pc = "ready"

Render ==
    /\ gen_pc = "ready"
    /\ gen_out' = gen_wave(gen_in, Rate)
    /\ gen_pc' = "done"
    /\ UNCHANGED gen_in
    /\ UNCHANGED gui_vars

GenNext == Render

SpecGen == GenInit /\ [][GenNext]_vars

\* ================================================================ claims
Durations(wos) == {wos[i].duration : i \in 1..Len(wos)}
MaxDuration(wos) == CHOOSE d \in Durations(wos) : \A x \in Durations(wos) : x <= d

\* Sample i of component w's rendered buffer, 0 past its end.
SampleOrZero(w, i) == IF i <= w.duration * Rate THEN gen_wave(w, Rate)[i] ELSE 0

RECURSIVE SumAt(_, _, _)
SumAt(wos, j, i) ==
    IF j = 0 THEN 0 ELSE SumAt(wos, j - 1, i) + SampleOrZero(wos[j], i)

\* C1: over add-wave, reset, plot-all toggle and play steps max_dur never
\* decreases: after every step it is at least what it was before.
C1_MaxDurNeverDecreases == [][max_dur' >= max_dur]_vars

\* C1 witness: a component shorter than max_dur is added after a reset took
\* away the longest one, and max_dur stays above the default.
C1_Witness ==
    /\ ev.op = "add" /\ ev.accepted
    /\ Len(wave_objects) = 1 /\ wave_objects[1].duration = 1
    /\ max_dur = 4

\* C2: max_dur is at least the duration of every component in wave_objects, so
\* every rendered buffer is no longer than the accumulator of max_dur*rate
\* samples and the mixing loop never meets a buffer longer than it.
C2_MaxDurCoversComponents ==
    /\ \A i \in 1..Len(wave_objects) :
        /\ wave_objects[i].duration <= max_dur
        /\ ~GenRaises(wave_objects[i], Rate)
            => Len(gen_wave(wave_objects[i], Rate)) <= max_dur * Rate
    /\ ev.raise # "shape"

\* C2 witness: a mix of a component as long as max_dur, raised above the
\* default, with a shorter one.
C2_Witness ==
    /\ ev.mixed
    /\ max_dur = 4
    /\ Durations(wave_objects) = {1, 4}

\* C3: the aggregate of a mix has (the maximum duration over the components
\* now in the list) * rate samples.
C3_MixLengthIsMaxComponentDuration ==
    ev.mixed => Len(final_vec) = MaxDuration(wave_objects) * Rate

\* C4: sample i of the aggregate is the sum of sample i of the components
\* whose buffer reaches i; a component whose buffer ends before i adds 0.
C4_AggregateIsPaddedSum ==
    ev.mixed =>
        \A i \in 1..Len(final_vec) :
            final_vec[i] = SumAt(wave_objects, Len(wave_objects), i)

\* C4 witness: a mix of two components of different durations whose sum is
\* not zero both where they overlap and past the end of the shorter one.
C4_Witness ==
    /\ ev.mixed
    /\ Len(wave_objects) = 2
    /\ wave_objects[1].duration = 1 /\ wave_objects[2].duration = 4
    /\ final_vec[2] # 0
    /\ final_vec[2] # gen_wave(wave_objects[2], Rate)[2]
    /\ final_vec[Rate + 2] # 0

\* C5: reset leaves wave_objects empty, whether or not deleting the files
\* raised, and leaves max_dur and plot_all as they were (the rate is a
\* constant).
C5_ResetClearsComponentsOnly ==
    [][ev'.op = "reset" =>
        /\ wave_objects' = <<>>
        /\ max_dur' = max_dur
        /\ plot_all' = plot_all]_vars

\* C5 witness: a reset whose deleting raised and left a file, with max_dur
\* above its default and plot_all set.
C5_Witness ==
    /\ ev.op = "reset" /\ ev.del_err
    /\ files # {}
    /\ wave_objects = <<>>
    /\ max_dur = 4
    /\ plot_all

\* C6: with no component, a reset, a plot-all toggle or the Play button
\* writes no file, computes no FFT and starts no playback.
C6_EmptyIsNoOp ==
    (wave_objects = <<>> /\ ev.op \in {"reset", "toggle", "play"}) =>
        (~ev.played /\ ~ev.fft /\ ev.wrote = 0 /\ ~ev.mixed)

\* C7: whenever playback is started, the file the player is given is a
\* complete wave file, written and not deleted since.
C7_PlaybackOfValidFile == ev.played => player \in files

\* C8: an add-wave request with a duration that is not positive or a
\* frequency that is not positive is rejected and leaves wave_objects as it
\* was, so a request that was accepted, and appended its component, had both
\* positive.
C8_OutOfRangeRejected ==
    (ev.op = "add" /\ ev.accepted) =>
        LET w == wave_objects[Len(wave_objects)]
        IN w.duration > 0 /\ w.freq > 0

\* C9: a mix with n >= 1 components writes wave_sum_n.wav and sets
\* current_wave to it, n the length of wave_objects; it touches no other file,
\* and every update_plot that returns with n >= 1 components is such a mix.
C9_FileKeyedByCount ==
    [][/\ ev'.mixed =>
            /\ ev'.wrote = Len(wave_objects')
            /\ current_wave' = Len(wave_objects')
            /\ player' = Len(wave_objects')
            /\ files' \subseteq files \cup {Len(wave_objects')}
            /\ files \ {Len(wave_objects')} \subseteq files'
       /\ ( /\ ev'.op = "toggle" \/ (ev'.op = "add" /\ ev'.accepted)
            /\ wave_objects' # <<>>
            /\ ev'.raise = "none" ) => ev'.mixed]_vars

\* C9 witness: a re-mix at the same component count (a plot-all toggle) whose
\* write found the file of that name already there.
C9_Witness ==
    /\ ev.op = "toggle" /\ ev.mixed
    /\ Len(wave_objects) = 2
    /\ ev.wrote = 2 /\ current_wave = 2
    /\ files = {1, 2}

\* C10: gen_wave on a component of duration D gives D*rate samples, each
\* within [-|amplitude|, |amplitude|] (samples are in units of 1/Rate).
C10_GenWaveLengthAndRange ==
    gen_pc = "done" =>
        /\ Len(gen_out) = gen_in.duration * Rate
        /\ \A i \in 1..Len(gen_out) :
            Abs(gen_out[i]) <= Abs(gen_in.amplitude) * Rate

\* C10 witness: a rendered sawtooth of amplitude -2 that reaches its bound.
C10_Witness ==
    /\ gen_pc = "done"
    /\ gen_in.shape = "sawtooth" /\ gen_in.amplitude = -2 /\ gen_in.duration = 2
    /\ Len(gen_out) = 2 * Rate
    /\ \E i \in 1..Len(gen_out) : gen_out[i] = 2 * Rate

====
